---- MODULE Spec2Model ----
(***************************************************************************)
(* Interest-notification submission pipeline of devmade-ai/see-veo.        *)
(*                                                                         *)
(*   - the client submission controller: InterestForm (the retrying,       *)
(*     diagnosing version of the component), its handleSubmit runs, the    *)
(*     auto-dismiss effect and the visitor's actions;                      *)
(*   - the standalone Node server: handleRequest with its in-memory       *)
(*     sliding-window rate limiter and sweep;                              *)
(*   - the Vercel serverless handler.                                      *)
(*                                                                         *)
(* Strings are sequences of one-character strings, so that trim() and the  *)
(* length checks are computed, not assumed.                                *)
(***************************************************************************)
EXTENDS Integers, Sequences, FiniteSets, TLC

VARIABLES
    \* ---- client: React state of one InterestForm instance
    formData,       \* [name, email, message]
    honeypot,       \* hidden "website" field
    status,         \* FormStatus
    errorMessage,   \* text shown in the alert
    errorTimer,     \* errorTimerRef.current # null (auto-dismiss timer armed)
    timerArmedAt,   \* history: handleSubmit runs started when that timer was armed (0: none)
    \* ---- client: environment
    apiUrl,         \* import.meta.env.VITE_INTEREST_API_URL ("" = not set)
    onLine,         \* navigator.onLine
    \* ---- client: one record per handleSubmit invocation, in start order
    runs,
    \* ---- server: which endpoint is deployed, and its configuration
    deployment,     \* "standalone" (Node http server) or "vercel" (serverless function)
    allowedOrigins, \* ALLOWED_ORIGINS after split/trim/filter
    envOk,          \* SMTP_HOST, SMTP_FROM and RECIPIENT_EMAIL are all set
    \* ---- server: standalone process state
    now,            \* Date.now()
    ticks,          \* clock advances so far
    rateLimitMap,   \* Map<ip, timestamps[]>
    admitted,       \* per ip, the times at which the rate-limit gate let a request pass
    unswept,        \* the table the same requests leave in a process whose sweep never runs
    relayed,        \* emails sendMail delivered so far (MaxRelayed: that many or more)
    \* ---- server: requests being handled, one record per open connection
    conns,
    \* ---- validation on its own: one call of validatePayload and one of EMAIL_PATTERN.test
    vpInput,        \* the value handed to validatePayload (NoCall: none)
    vpResult,       \* what it returned (Pending: not called yet)
    vpAgain,        \* what it returned for its own result (Pending: not called yet)
    address,        \* the string handed to EMAIL_PATTERN.test
    matches         \* what test returned (Pending: not called yet)

clientVars ==
    <<formData, honeypot, status, errorMessage, errorTimer, timerArmedAt, apiUrl, onLine, runs>>

serverVars ==
    <<deployment, allowedOrigins, envOk, now, ticks, rateLimitMap, admitted, unswept, relayed, conns>>

checkVars == <<vpInput, vpResult, vpAgain, address, matches>>

vars == <<clientVars, serverVars, checkVars>>

-----------------------------------------------------------------------------
(* Bounds of the model *)

\* handleSubmit invocations per behaviour
MaxRuns == 2

\* connections the server has open at once
MaxConns == 1

\* clock advances per behaviour
MaxTicks == 2

\* requests the rate-limit gate lets pass per behaviour
MaxAdmits == 6

\* delivered emails counted one by one
MaxRelayed == 1

-----------------------------------------------------------------------------
(* Strings *)

IsSpace(c) == c = " "

RECURSIVE TrimStart(_)
TrimStart(s) ==
    IF s = <<>> THEN <<>>
    ELSE IF IsSpace(Head(s)) THEN TrimStart(Tail(s)) ELSE s

RECURSIVE TrimEnd(_)
TrimEnd(s) ==
    IF s = <<>> THEN <<>>
    ELSE IF IsSpace(s[Len(s)]) THEN TrimEnd(SubSeq(s, 1, Len(s) - 1)) ELSE s

\* A variant of Trim that removes one space at most from each end
TrimOnce(s) ==
    LET t == IF s # <<>> /\ IsSpace(Head(s)) THEN Tail(s) ELSE s
    IN  IF t # <<>> /\ IsSpace(t[Len(t)]) THEN SubSeq(t, 1, Len(t) - 1) ELSE t

\* String.prototype.trim
Trim(s) == TrimEnd(TrimStart(s))

Empty == <<>>

\* vpResult, vpAgain: no call is to be made; the call has not been made yet
NoCall == [none |-> TRUE]
Pending == [pending |-> TRUE]

\* A behaviour that makes no validation call on its own
NoCheck ==
    /\ vpInput = NoCall
    /\ vpResult = NoCall
    /\ vpAgain = NoCall
    /\ address = <<>>
    /\ matches = "none"

-----------------------------------------------------------------------------
(* Server: identities *)

IPs == {"10.0.0.1", "10.0.0.2"}

ConnIds == 1..MaxConns

NoConn == [free |-> TRUE]

-----------------------------------------------------------------------------
(* Client: constants of InterestForm *)

MAX_ATTEMPTS == 2

MsgNone == ""
MsgNotAvailable == "This feature is not available yet."
MsgOffline == "You appear to be offline."
MsgHttpError == "Something went wrong while sending your message."
MsgTimeout == "The request took too long."
MsgDropped == "Your connection dropped while sending."
MsgNotDeployed == "This feature is temporarily unavailable."
MsgCors == "A security setting is blocking the response."
MsgNetwork == "Could not reach the server."

FormStatus == {"idle", "submitting", "success", "error"}

NoUrl == ""
Url == "https://api.example/api/send-interest"

\* What the visitor (or a bot) can put into each field
NameValues == {Empty, <<" ", "a", " ">>}
EmailValues == {Empty, <<"a", "@", "b", ".", "c", "c", " ">>}
MessageValues == {Empty, <<"m", " ">>}
HoneypotValues == {Empty, <<"x">>}

EmptyForm == [name |-> Empty, email |-> Empty, message |-> Empty]

-----------------------------------------------------------------------------
(* Client: React plumbing *)

\* A variant of TimerAfter whose cleanup does not clear the pending timer
TimerAfterNoCleanup(old, new, timer) ==
    IF new = old THEN timer ELSE (new = "error" \/ timer)

\* useEffect(..., [status]): the effect re-runs only when status changes; its
\* cleanup clears the pending timer, and the new effect arms one iff the new
\* status is 'error'.  A setStatus with the current value re-runs nothing.
TimerAfter(old, new, timer) ==
    IF new = old THEN timer ELSE (new = "error")

\* History of the same effect: the timer it arms is marked with n, the number
\* of handleSubmit runs started so far; the cleanup's clearTimeout unmarks it.
ArmedAfter(old, new, at, n) ==
    IF new = old THEN at ELSE IF new = "error" THEN n ELSE 0

\* The <form> is rendered unless status = 'success' (success panel instead)
FormRendered == status # "success"

\* The submit button carries disabled={status === 'submitting'}; the name, email
\* and message inputs carry the required attribute, so the browser fires onSubmit only for
\* a draft whose three fields are non-empty.
CanSubmit ==
    /\ FormRendered
    /\ status # "submitting"
    /\ formData.name # Empty
    /\ formData.email # Empty
    /\ formData.message # Empty

\* Outcomes of one fetch(apiUrl, {method: 'POST', ...}) as handleSubmit sees them
PostOutcomes == {"ok", "http", "abort", "typeerror"}

\* Outcomes of the health GET in mode 'cors': res.ok, !res.ok, or a throw
\* (network error, CORS block or the 3 s abort)
Probe1Outcomes == {"ok", "notok", "throw"}

\* A variant of Probe2Outcomes for a probe without its abort timer on a
\* network that hangs: the fetch never settles
Probe2OutcomesHung == {}

\* Outcomes of the health GET in mode 'no-cors': an opaque response, a
\* non-opaque response, or a throw
Probe2Outcomes == {"opaque", "basic", "throw"}

\* A handleSubmit invocation.  pc is the await it is suspended at.
\*   hp, online: what the run read at its start (honeypot non-empty, navigator.onLine)
\*   posts, probes: fetches issued so far (POST attempts, health probes)
\*   results, probeResults: how those fetches ended, in order
NewRun(hp, online, body) ==
    [pc |-> "done", hp |-> hp, online |-> online, body |-> body,
     attempt |-> 0, posts |-> 0, probes |-> 0,
     results |-> <<>>, probeResults |-> <<>>, exit |-> "none"]

RunIds == 1..Len(runs)

\* requestBody of handleSubmit
RequestBody(fd) ==
    [name |-> Trim(fd.name), email |-> Trim(fd.email),
     message |-> Trim(fd.message), _honeypot |-> Empty]

\* A variant of CauseMessage whose switch has no text for 'network'
CauseMessageNetworkUnset(cause) ==
    CASE cause = "not-deployed" -> MsgNotDeployed
      [] cause = "cors" -> MsgCors
      [] cause = "network" -> MsgNone

\* The switch over diagnoseFailure's result
CauseMessage(cause) ==
    CASE cause = "not-deployed" -> MsgNotDeployed
      [] cause = "cors" -> MsgCors
      [] cause = "network" -> MsgNetwork

-----------------------------------------------------------------------------
(* Client: the visitor and the environment *)

\* onChange of the three visible inputs
TypeField(f, v) ==
    /\ FormRendered
    /\ formData[f] # v
    /\ formData' = [formData EXCEPT ![f] = v]
    /\ UNCHANGED <<honeypot, status, errorMessage, errorTimer, timerArmedAt, apiUrl, onLine, runs, serverVars, checkVars>>

Type ==
    \/ \E v \in NameValues : TypeField("name", v)
    \/ \E v \in EmailValues : TypeField("email", v)
    \/ \E v \in MessageValues : TypeField("message", v)

\* onChange of the hidden honeypot input
TypeHoneypot ==
    /\ FormRendered
    /\ \E v \in HoneypotValues :
        /\ honeypot # v
        /\ honeypot' = v
    /\ UNCHANGED <<formData, status, errorMessage, errorTimer, timerArmedAt, apiUrl, onLine, runs, serverVars, checkVars>>

\* navigator.onLine changes under the page
OnlineChange ==
    /\ onLine' = ~onLine
    /\ UNCHANGED <<formData, honeypot, status, errorMessage, errorTimer, timerArmedAt, apiUrl, runs, serverVars, checkVars>>

\* "Dismiss error" button
Dismiss ==
    /\ FormRendered
    /\ status = "error"
    /\ status' = "idle"
    /\ errorMessage' = MsgNone
    /\ errorTimer' = TimerAfter(status, "idle", errorTimer)
    /\ timerArmedAt' = ArmedAfter(status, "idle", timerArmedAt, Len(runs))
    /\ UNCHANGED <<formData, honeypot, apiUrl, onLine, runs, serverVars, checkVars>>

\* "Send another message" button of the success panel
SendAnother ==
    /\ status = "success"
    /\ status' = "idle"
    /\ errorTimer' = TimerAfter(status, "idle", errorTimer)
    /\ timerArmedAt' = ArmedAfter(status, "idle", timerArmedAt, Len(runs))
    /\ UNCHANGED <<formData, honeypot, errorMessage, apiUrl, onLine, runs, serverVars, checkVars>>

\* The auto-dismiss timeout callback
ErrorTimerFires ==
    /\ errorTimer
    /\ status' = "idle"
    /\ errorMessage' = MsgNone
    /\ errorTimer' = TimerAfter(status, "idle", FALSE)
    /\ timerArmedAt' = ArmedAfter(status, "idle", 0, Len(runs))
    /\ UNCHANGED <<formData, honeypot, apiUrl, onLine, runs, serverVars, checkVars>>

-----------------------------------------------------------------------------
(* Client: handleSubmit *)

\* Variants of SubmitBranch with one test misplaced or missing
SubmitBranchUrlFirst(hp, url, online) ==
    IF url = NoUrl THEN "no-api"
    ELSE IF hp # Empty THEN "honeypot"
    ELSE IF ~online THEN "offline"
    ELSE "send"

SubmitBranchNoUrlTest(hp, url, online) ==
    IF hp # Empty THEN "honeypot"
    ELSE IF ~online THEN "offline"
    ELSE "send"

SubmitBranchNoOnlineTest(hp, url, online) ==
    IF hp # Empty THEN "honeypot"
    ELSE IF url = NoUrl THEN "no-api"
    ELSE "send"

\* The early returns of handleSubmit, in the order the code tests them
SubmitBranch(hp, url, online) ==
    IF hp # Empty THEN "honeypot"
    ELSE IF url = NoUrl THEN "no-api"
    ELSE IF ~online THEN "offline"
    ELSE "send"

\* Variants of AfterPost: response.ok not tested; a non-2xx response thrown
\* into the retry path; an aborted attempt retried; one attempt too many
AfterPostOkUntested(outcome, attempt) ==
    CASE outcome \in {"ok", "http"} -> "success"
      [] outcome = "abort" -> "timeout"
      [] outcome = "typeerror" ->
            IF attempt < MAX_ATTEMPTS THEN "retry" ELSE "exhausted"

AfterPostHttpRetried(outcome, attempt) ==
    CASE outcome = "ok" -> "success"
      [] outcome = "abort" -> "timeout"
      [] outcome \in {"http", "typeerror"} ->
            IF attempt < MAX_ATTEMPTS THEN "retry" ELSE "exhausted"

AfterPostAbortRetried(outcome, attempt) ==
    CASE outcome = "ok" -> "success"
      [] outcome = "http" -> "http-error"
      [] outcome \in {"abort", "typeerror"} ->
            IF attempt < MAX_ATTEMPTS THEN "retry" ELSE "exhausted"

AfterPostOneMore(outcome, attempt) ==
    CASE outcome = "ok" -> "success"
      [] outcome = "http" -> "http-error"
      [] outcome = "abort" -> "timeout"
      [] outcome = "typeerror" ->
            IF attempt <= MAX_ATTEMPTS THEN "retry" ELSE "exhausted"

\* What the retry loop does with the end of one POST attempt:
\*   response.ok -> success; !response.ok -> error, return; AbortError -> error,
\*   return; any other throw -> wait and loop while attempt < MAX_ATTEMPTS,
\*   otherwise fall out of the loop
AfterPost(outcome, attempt) ==
    CASE outcome = "ok" -> "success"
      [] outcome = "http" -> "http-error"
      [] outcome = "abort" -> "timeout"
      [] outcome = "typeerror" ->
            IF attempt < MAX_ATTEMPTS THEN "retry" ELSE "exhausted"

\* A variant of AfterProbe1 that does not test res.ok
AfterProbe1OkUntested(outcome) ==
    CASE outcome \in {"ok", "notok"} -> "cors"
      [] outcome = "throw" -> "probe2"

\* diagnoseFailure, first probe (GET health, mode 'cors')
AfterProbe1(outcome) ==
    CASE outcome = "ok" -> "cors"
      [] outcome = "notok" -> "not-deployed"
      [] outcome = "throw" -> "probe2"

\* diagnoseFailure, second probe (GET health, mode 'no-cors')
AfterProbe2(outcome) ==
    CASE outcome = "opaque" -> "not-deployed"
      [] outcome = "basic" -> "not-deployed"
      [] outcome = "throw" -> "network"

\* A variant of ClearedForm that keeps the draft
ClearedFormKept(fd) == fd

\* setFormData({ name: '', email: '', message: '' }) after a 2xx response
ClearedForm(fd) == EmptyForm

\* onSubmit: handleSubmit up to its first await
Submit ==
    /\ CanSubmit
    /\ Len(runs) < MaxRuns
    /\ LET branch == SubmitBranch(honeypot, apiUrl, onLine)
           run == NewRun(honeypot # Empty, onLine, RequestBody(formData))
       IN  CASE branch = "honeypot" ->
                    /\ status' = "success"
                    /\ errorTimer' = TimerAfter(status, "success", errorTimer)
                    /\ timerArmedAt' = ArmedAfter(status, "success", timerArmedAt, Len(runs) + 1)
                    /\ runs' = Append(runs, [run EXCEPT !.exit = "honeypot"])
                    /\ UNCHANGED errorMessage
             [] branch = "no-api" ->
                    /\ status' = "error"
                    /\ errorMessage' = MsgNotAvailable
                    /\ errorTimer' = TimerAfter(status, "error", errorTimer)
                    /\ timerArmedAt' = ArmedAfter(status, "error", timerArmedAt, Len(runs) + 1)
                    /\ runs' = Append(runs, [run EXCEPT !.exit = "no-api"])
             [] branch = "offline" ->
                    /\ status' = "error"
                    /\ errorMessage' = MsgOffline
                    /\ errorTimer' = TimerAfter(status, "error", errorTimer)
                    /\ timerArmedAt' = ArmedAfter(status, "error", timerArmedAt, Len(runs) + 1)
                    /\ runs' = Append(runs, [run EXCEPT !.exit = "offline"])
             [] branch = "send" ->
                    /\ status' = "submitting"
                    /\ errorMessage' = MsgNone
                    /\ errorTimer' = TimerAfter(status, "submitting", errorTimer)
                    /\ timerArmedAt' = ArmedAfter(status, "submitting", timerArmedAt, Len(runs) + 1)
                    /\ runs' = Append(runs,
                            [run EXCEPT !.pc = "fetch", !.attempt = 1, !.posts = 1])
    /\ UNCHANGED <<formData, honeypot, apiUrl, onLine, serverVars, checkVars>>

\* The awaited POST of run r settles.  Reading the response body for the debug
\* log (response.clone().json()) changes no state and is folded into this step.
PostSettles(r, outcome) ==
    /\ runs[r].pc = "fetch"
    /\ LET next == AfterPost(outcome, runs[r].attempt)
           seen == [runs[r] EXCEPT !.results = Append(@, outcome)]
       IN  CASE next = "success" ->
                    /\ status' = "success"
                    /\ formData' = ClearedForm(formData)
                    /\ errorTimer' = TimerAfter(status, "success", errorTimer)
                    /\ timerArmedAt' = ArmedAfter(status, "success", timerArmedAt, Len(runs))
                    /\ runs' = [runs EXCEPT ![r] = [seen EXCEPT !.pc = "done", !.exit = "ok"]]
                    /\ UNCHANGED errorMessage
             [] next = "http-error" ->
                    /\ status' = "error"
                    /\ errorMessage' = MsgHttpError
                    /\ errorTimer' = TimerAfter(status, "error", errorTimer)
                    /\ timerArmedAt' = ArmedAfter(status, "error", timerArmedAt, Len(runs))
                    /\ runs' = [runs EXCEPT ![r] = [seen EXCEPT !.pc = "done", !.exit = "http"]]
                    /\ UNCHANGED formData
             [] next = "timeout" ->
                    /\ status' = "error"
                    /\ errorMessage' = MsgTimeout
                    /\ errorTimer' = TimerAfter(status, "error", errorTimer)
                    /\ timerArmedAt' = ArmedAfter(status, "error", timerArmedAt, Len(runs))
                    /\ runs' = [runs EXCEPT ![r] = [seen EXCEPT !.pc = "done", !.exit = "timeout"]]
                    /\ UNCHANGED formData
             [] next = "retry" ->
                    /\ runs' = [runs EXCEPT ![r] = [seen EXCEPT !.pc = "delay"]]
                    /\ UNCHANGED <<status, errorMessage, errorTimer, timerArmedAt, formData>>
             [] next = "exhausted" ->
                    \* after the loop: setStatus('error'), then the offline
                    \* test, then (online) the first health probe is awaited
                    /\ status' = "error"
                    /\ errorTimer' = TimerAfter(status, "error", errorTimer)
                    /\ timerArmedAt' = ArmedAfter(status, "error", timerArmedAt, Len(runs))
                    /\ IF ~onLine
                       THEN /\ errorMessage' = MsgDropped
                            /\ runs' = [runs EXCEPT ![r] =
                                    [seen EXCEPT !.pc = "done", !.exit = "dropped"]]
                       ELSE /\ runs' = [runs EXCEPT ![r] =
                                    [seen EXCEPT !.pc = "probe1", !.probes = 1]]
                            /\ UNCHANGED errorMessage
                    /\ UNCHANGED formData
    /\ UNCHANGED <<honeypot, apiUrl, onLine, serverVars, checkVars>>

PostResolves == \E r \in RunIds : \E o \in PostOutcomes : PostSettles(r, o)

\* The RETRY_DELAY_MS timer of run r fires: next loop iteration, next POST
RetryDelayElapsed ==
    \E r \in RunIds :
        /\ runs[r].pc = "delay"
        /\ runs' = [runs EXCEPT ![r] =
                [@ EXCEPT !.pc = "fetch", !.attempt = @ + 1, !.posts = @ + 1]]
        /\ UNCHANGED <<formData, honeypot, status, errorMessage, errorTimer, timerArmedAt, apiUrl, onLine, serverVars, checkVars>>

\* diagnoseFailure returned cause to run r: the switch sets the message
Diagnosed(r, seen, cause) ==
    /\ errorMessage' = CauseMessage(cause)
    /\ runs' = [runs EXCEPT ![r] = [seen EXCEPT !.pc = "done", !.exit = cause]]

Probe1Settles(r, outcome) ==
    /\ runs[r].pc = "probe1"
    /\ LET next == AfterProbe1(outcome)
           seen == [runs[r] EXCEPT !.probeResults = Append(@, outcome)]
       IN  IF next = "probe2"
           THEN /\ runs' = [runs EXCEPT ![r] = [seen EXCEPT !.pc = "probe2", !.probes = @ + 1]]
                /\ UNCHANGED errorMessage
           ELSE Diagnosed(r, seen, next)
    /\ UNCHANGED <<formData, honeypot, status, errorTimer, timerArmedAt, apiUrl, onLine, serverVars, checkVars>>

Probe1Resolves == \E r \in RunIds : \E o \in Probe1Outcomes : Probe1Settles(r, o)

Probe2Settles(r, outcome) ==
    /\ runs[r].pc = "probe2"
    /\ LET seen == [runs[r] EXCEPT !.probeResults = Append(@, outcome)]
       IN  Diagnosed(r, seen, AfterProbe2(outcome))
    /\ UNCHANGED <<formData, honeypot, status, errorTimer, timerArmedAt, apiUrl, onLine, serverVars, checkVars>>

Probe2Resolves == \E r \in RunIds : \E o \in Probe2Outcomes : Probe2Settles(r, o)

-----------------------------------------------------------------------------
(* Client: specification *)

InitClient ==
    /\ formData = EmptyForm
    /\ honeypot = Empty
    /\ status = "idle"
    /\ errorMessage = MsgNone
    /\ errorTimer = FALSE
    /\ timerArmedAt = 0
    /\ apiUrl \in {NoUrl, Url}
    /\ onLine \in BOOLEAN
    /\ runs = <<>>
    /\ deployment = "none"
    /\ allowedOrigins = {}
    /\ envOk = TRUE
    /\ now = 0
    /\ ticks = 0
    /\ rateLimitMap = <<>>
    /\ admitted = [ip \in IPs |-> <<>>]
    /\ unswept = <<>>
    /\ relayed = 0
    /\ conns = [c \in ConnIds |-> NoConn]
    /\ NoCheck

NextClient ==
    \/ Type
    \/ TypeHoneypot
    \/ OnlineChange
    \/ Dismiss
    \/ SendAnother
    \/ ErrorTimerFires
    \/ Submit
    \/ PostResolves
    \/ RetryDelayElapsed
    \/ Probe1Resolves
    \/ Probe2Resolves

SpecClient == InitClient /\ [][NextClient]_vars

\* The same, with the scheduling the browser gives: every fetch settles (each
\* carries an AbortController timer of FETCH_TIMEOUT_MS or
\* CORS_PROBE_TIMEOUT_MS, whose abort rejects it), and the RETRY_DELAY_MS
\* timer fires.  Nothing obliges the visitor to act.
SpecClientFair ==
    /\ SpecClient
    /\ WF_vars(PostResolves)
    /\ WF_vars(RetryDelayElapsed)
    /\ WF_vars(Probe1Resolves)
    /\ WF_vars(Probe2Resolves)

-----------------------------------------------------------------------------
(* Server: JSON values and the payload check *)

\* A JSON value as validatePayload sees it: its typeof, and for an object the
\* three properties it destructures (a missing property reads as undefined)
JUndefined == [t |-> "undefined", v |-> <<>>]
JNumber == [t |-> "number", v |-> <<>>]
JString(s) == [t |-> "string", v |-> s]

JObject(n, e, m) == [t |-> "object", name |-> n, email |-> e, message |-> m]
JNull == [t |-> "null", name |-> JUndefined, email |-> JUndefined, message |-> JUndefined]
JArray == [t |-> "array", name |-> JUndefined, email |-> JUndefined, message |-> JUndefined]
JText == [t |-> "string", name |-> JUndefined, email |-> JUndefined, message |-> JUndefined]

\* typeof data === 'object' and data !== null (an array is an object)
IsObject(data) == data.t \in {"object", "array"}

Null == [null |-> TRUE]

Rep(c, n) == [i \in 1..n |-> c]

Letters ==
    {"a", "b", "c", "d", "e", "f", "g", "h", "i", "j", "k", "l", "m",
     "n", "o", "p", "q", "r", "s", "t", "u", "v", "w", "x", "y", "z",
     "A", "B", "C", "D", "E", "F", "G", "H", "I", "J", "K", "L", "M",
     "N", "O", "P", "Q", "R", "S", "T", "U", "V", "W", "X", "Y", "Z"}

Digits == {"0", "1", "2", "3", "4", "5", "6", "7", "8", "9"}

AlNum == Letters \cup Digits

\* The character class of the local part: letters, digits and the listed
\* specials (the class's backquote is left out: no input here contains one)
LocalChars ==
    AlNum \cup {".", "!", "#", "$", "%", "&", "'", "*", "+", "/", "=", "?",
                "^", "_", "{", "|", "}", "~", "-"}

\* [a-zA-Z0-9-] and the label separator
DomainChars == AlNum \cup {"-", "."}

\* Positions of the character c in s
Positions(s, c) == {i \in 1..Len(s) : s[i] = c}

\* /^[^\s@]+@[^\s@]+\.[^\s@]+$/ : one '@', no whitespace, something before the
\* '@', and after it a '.' with something on both sides
emailPattern(s) ==
    /\ \A k \in 1..Len(s) : ~IsSpace(s[k])
    /\ Cardinality(Positions(s, "@")) = 1
    /\ \E i \in Positions(s, "@") :
        /\ i > 1
        /\ \E j \in Positions(s, ".") : j > i + 1 /\ j < Len(s)

\* The local part of EMAIL_PATTERN: [a-zA-Z0-9](?:[...]*[a-zA-Z0-9])?
LocalPartOk(l) ==
    /\ Len(l) >= 1
    /\ l[1] \in AlNum
    /\ l[Len(l)] \in AlNum
    /\ \A k \in 1..Len(l) : l[k] \in LocalChars

\* A variant of DomainOk whose final label may be a single letter
DomainOkShortTld(d) ==
    /\ Len(d) >= 1
    /\ \A k \in 1..Len(d) : d[k] \in DomainChars
    /\ d[1] \in AlNum
    /\ \A k \in Positions(d, ".") :
        /\ k > 1 /\ k < Len(d)
        /\ d[k - 1] \in AlNum
        /\ d[k + 1] \in AlNum
    /\ \E last \in Positions(d, ".") :
        /\ \A k \in (last + 1)..Len(d) : d[k] \in Letters
        /\ Len(d) - last >= 1

\* The domain of EMAIL_PATTERN: labels [a-zA-Z0-9](?:[a-zA-Z0-9-]*[a-zA-Z0-9])?
\* joined by dots, then \.[a-zA-Z]{2,}
DomainOk(d) ==
    /\ Len(d) >= 1
    /\ \A k \in 1..Len(d) : d[k] \in DomainChars
    /\ d[1] \in AlNum
    /\ \A k \in Positions(d, ".") :
        /\ k > 1 /\ k < Len(d)
        /\ d[k - 1] \in AlNum
        /\ d[k + 1] \in AlNum
    /\ \E last \in Positions(d, ".") :
        /\ \A k \in (last + 1)..Len(d) : d[k] \in Letters
        /\ Len(d) - last >= 2

EMAIL_PATTERN(s) ==
    /\ Cardinality(Positions(s, "@")) = 1
    /\ \E i \in Positions(s, "@") :
        /\ LocalPartOk(SubSeq(s, 1, i - 1))
        /\ DomainOk(SubSeq(s, i + 1, Len(s)))

NAME_MAX == 100
EMAIL_MAX == 254
MESSAGE_MAX == 2000

\* A variant of validatePayload without the length test of the email
validatePayloadNoEmailCap(data) ==
    IF ~IsObject(data) THEN Null
    ELSE IF data.name.t # "string" \/ Len(Trim(data.name.v)) = 0
            \/ Len(data.name.v) > NAME_MAX THEN Null
    ELSE IF data.email.t # "string" THEN Null
    ELSE IF data.message.t # "string" \/ Len(data.message.v) > MESSAGE_MAX THEN Null
    ELSE IF ~EMAIL_PATTERN(Trim(data.email.v)) THEN Null
    ELSE [name |-> Trim(data.name.v), email |-> Trim(data.email.v),
          message |-> Trim(data.message.v)]

\* validatePayload of the Vercel function
validatePayload(data) ==
    IF ~IsObject(data) THEN Null
    ELSE IF data.name.t # "string" \/ Len(Trim(data.name.v)) = 0
            \/ Len(data.name.v) > NAME_MAX THEN Null
    ELSE IF data.email.t # "string" \/ Len(data.email.v) > EMAIL_MAX THEN Null
    ELSE IF data.message.t # "string" \/ Len(data.message.v) > MESSAGE_MAX THEN Null
    ELSE IF ~EMAIL_PATTERN(Trim(data.email.v)) THEN Null
    ELSE [name |-> Trim(data.name.v), email |-> Trim(data.email.v),
          message |-> Trim(data.message.v)]

\* validatePayload of the standalone server: the same checks, with the older
\* email pattern
validatePayloadStandalone(data) ==
    IF ~IsObject(data) THEN Null
    ELSE IF data.name.t # "string" \/ Len(Trim(data.name.v)) = 0
            \/ Len(data.name.v) > NAME_MAX THEN Null
    ELSE IF data.email.t # "string" \/ Len(data.email.v) > EMAIL_MAX THEN Null
    ELSE IF data.message.t # "string" \/ Len(data.message.v) > MESSAGE_MAX THEN Null
    ELSE IF ~emailPattern(Trim(data.email.v)) THEN Null
    ELSE [name |-> Trim(data.name.v), email |-> Trim(data.email.v),
          message |-> Trim(data.message.v)]

-----------------------------------------------------------------------------
(* Server: requests *)

NoOrigin == ""
SiteOrigin == "https://site.example"
OtherOrigin == "https://other.example"
Origins == {NoOrigin, SiteOrigin, OtherOrigin}

Methods == {"GET", "POST", "OPTIONS"}
Urls == {"/health", "/send-interest", "/other"}

\* x-forwarded-for as the proxy chain wrote it (NoXff: header absent), and the
\* socket's remote address
NoXff == <<>>
XffValues == {NoXff, <<"10.0.0.1">>, <<"10.0.0.2", "10.0.0.1">>}
RemoteAddress == "10.0.0.1"

\* headers['x-forwarded-for']?.split(',')[0]?.trim() ?? socket.remoteAddress
ClientIp(xff) == IF xff # NoXff THEN Head(xff) ELSE RemoteAddress

MAX_BODY == 10000

Malformed == [t |-> "malformed", name |-> JUndefined, email |-> JUndefined, message |-> JUndefined]

\* req.body when the request carried no JSON body
NoBody == [t |-> "undefined", name |-> JUndefined, email |-> JUndefined, message |-> JUndefined]

GoodName == JString(<<" ", "J", "o", " ">>)
GoodEmail == JString(<<"j", "o", "@", "e", "x", ".", "c", "o", " ">>)
GoodMessage == JString(<<" ", "h", "i">>)
ValidData == JObject(GoodName, GoodEmail, GoodMessage)

\* The draft InterestForm lets through (every required input filled), and
\* what JSON.parse gives for the text JSON.stringify made of a requestBody
FilledForm ==
    [name |-> <<" ", "a", " ">>, email |-> <<"a", "@", "b", ".", "c", "c", " ">>,
     message |-> <<"m", " ">>]

Stringified(body) == JObject(JString(body.name), JString(body.email), JString(body.message))

\* JSON texts a client can send, by name, and the value JSON.parse gives for
\* each.  Connections carry the name, Json gives the text's value.
SampleKeys ==
    {"valid", "short-tld", "dotdot", "blank-name", "long-name", "long-email",
     "long-message", "no-message", "number-name", "no-dot", "null", "array", "text"}

Json(key) ==
    CASE key = "valid" -> ValidData
      [] key = "short-tld" ->
            JObject(GoodName, JString(<<"a", "@", "b", ".", "c">>), JString(<<>>))
      [] key = "dotdot" ->
            JObject(GoodName,
                    JString(<<"a", ".", ".", "b", "@", "e", "x", ".", "c", "o">>), GoodMessage)
      [] key = "blank-name" -> JObject(JString(<<" ", " ">>), GoodEmail, GoodMessage)
      [] key = "long-name" -> JObject(JString(Rep("n", NAME_MAX + 1)), GoodEmail, GoodMessage)
      [] key = "long-email" ->
            JObject(GoodName,
                    JString(Rep("a", EMAIL_MAX - 6) \o <<"@", "e", "x", ".", "c", "o", " ">>),
                    GoodMessage)
      [] key = "long-message" ->
            JObject(GoodName, GoodEmail, JString(Rep("m", MESSAGE_MAX + 1)))
      [] key = "no-message" -> JObject(GoodName, GoodEmail, JUndefined)
      [] key = "number-name" -> JObject(JNumber, GoodEmail, GoodMessage)
      [] key = "no-dot" -> JObject(GoodName, JString(<<"j", "o", "@", "e", "x">>), GoodMessage)
      [] key = "null" -> JNull
      [] key = "array" -> JArray
      [] key = "text" -> JText
      [] key = "malformed" -> Malformed
      [] key = "form" -> Stringified(RequestBody(FilledForm))
      [] key = "none" -> NoBody

\* Request bodies: their size in bytes and their text.  Padding with JSON
\* whitespace makes a text of any content as large as wanted.
\* The texts requests carry: one per way through the gates
RequestKeys == {"valid", "short-tld", "blank-name", "long-message", "no-message", "null"}

Bodies ==
    [size : {200}, json : RequestKeys \cup {"malformed"}]
    \cup [size : {MAX_BODY, MAX_BODY + 1}, json : {"valid", "malformed"}]

Unread == [size |-> 0, json |-> "none"]

\* An open connection: the request, where its handler is suspended, and the
\* response once written.
\*   parsed: JSON.parse was called on the body; mails: sendMail calls made;
\*   transport: how the sendMail promise settled ("none": not yet, or no call)
NewConn(method, url, origin, ip) ==
    [free |-> FALSE, method |-> method, url |-> url, origin |-> origin, ip |-> ip,
     pc |-> "start", code |-> 0, acao |-> NoOrigin, body |-> Unread,
     parsed |-> FALSE, payload |-> Null, mails |-> 0, transport |-> "none",
     limited |-> FALSE]

-----------------------------------------------------------------------------
(* Server: standalone *)

RATE_LIMIT_WINDOW_MS == 3600000
RATE_LIMIT_MAX == 5

\* Clock advances the model takes
TickSteps == {1, RATE_LIMIT_WINDOW_MS - 1}

\* getCorsHeaders: the Access-Control-Allow-Origin value (NoOrigin: header not set)
getCorsHeaders(origin) ==
    IF origin # NoOrigin /\ origin \in allowedOrigins THEN origin ELSE NoOrigin

\* respond(res, status, body, origin)
respond(conn, code, origin) ==
    [conn EXCEPT !.pc = "responded", !.code = code, !.acao = getCorsHeaders(origin)]

\* timestamps.filter((t) => now - t < RATE_LIMIT_WINDOW_MS)
Recent(timestamps, t) ==
    SelectSeq(timestamps, LAMBDA x : t - x < RATE_LIMIT_WINDOW_MS)

MapGet(map, ip) == IF ip \in DOMAIN map THEN map[ip] ELSE <<>>

MapSet(map, ip, v) == [i \in DOMAIN map \cup {ip} |-> IF i = ip THEN v ELSE map[i]]

\* A variant of isRateLimited whose comparison is off by one
isRateLimitedOffByOne(map, ip, t) ==
    LET recent == Recent(MapGet(map, ip), t)
    IN  IF Len(recent) > RATE_LIMIT_MAX
        THEN [limited |-> TRUE, map |-> MapSet(map, ip, recent)]
        ELSE [limited |-> FALSE, map |-> MapSet(map, ip, Append(recent, t))]

\* A variant of isRateLimited that stores the record without filtering it
isRateLimitedUnpruned(map, ip, t) ==
    LET timestamps == MapGet(map, ip)
        recent == Recent(timestamps, t)
    IN  IF Len(recent) >= RATE_LIMIT_MAX
        THEN [limited |-> TRUE, map |-> MapSet(map, ip, timestamps)]
        ELSE [limited |-> FALSE, map |-> MapSet(map, ip, Append(timestamps, t))]

\* A variant of isRateLimited that records the rejected attempt too
isRateLimitedCountsRejected(map, ip, t) ==
    LET recent == Recent(MapGet(map, ip), t)
    IN  IF Len(recent) >= RATE_LIMIT_MAX
        THEN [limited |-> TRUE, map |-> MapSet(map, ip, Append(Tail(recent), t))]
        ELSE [limited |-> FALSE, map |-> MapSet(map, ip, Append(recent, t))]

\* A variant of isRateLimited that admits without recording the attempt
isRateLimitedNoRecord(map, ip, t) ==
    LET recent == Recent(MapGet(map, ip), t)
    IN  [limited |-> Len(recent) >= RATE_LIMIT_MAX, map |-> MapSet(map, ip, recent)]

\* isRateLimited(ip): its return value and the table it leaves
isRateLimited(map, ip, t) ==
    LET recent == Recent(MapGet(map, ip), t)
    IN  IF Len(recent) >= RATE_LIMIT_MAX
        THEN [limited |-> TRUE, map |-> MapSet(map, ip, recent)]
        ELSE [limited |-> FALSE, map |-> MapSet(map, ip, Append(recent, t))]

\* A variant of SweepMap whose filter is inverted: it keeps what has expired
SweepMapKeepsExpired(map, t) ==
    LET old(ts) == SelectSeq(ts, LAMBDA x : t - x >= RATE_LIMIT_WINDOW_MS)
        keep == {ip \in DOMAIN map : Len(old(map[ip])) # 0}
    IN  [ip \in keep |-> old(map[ip])]

\* The setInterval callback
SweepMap(map, t) ==
    LET keep == {ip \in DOMAIN map : Len(Recent(map[ip], t)) # 0}
    IN  [ip \in keep |-> Recent(map[ip], t)]

Sweep ==
    /\ deployment = "standalone"
    /\ rateLimitMap' = SweepMap(rateLimitMap, now)
    /\ UNCHANGED <<deployment, allowedOrigins, envOk, now, ticks, admitted, unswept, relayed, conns, clientVars, checkVars>>

Tick ==
    /\ deployment = "standalone"
    /\ ticks < MaxTicks
    /\ \E d \in TickSteps : now' = now + d
    /\ ticks' = ticks + 1
    /\ UNCHANGED <<deployment, allowedOrigins, envOk, rateLimitMap, admitted, unswept, relayed, conns, clientVars, checkVars>>

\* A variant of handleRequest without the preflight branch: an OPTIONS request
\* falls through to the route test
handleRequestNoPreflight(c, method, url, origin, xff) ==
    /\ deployment = "standalone"
    /\ conns[c] = NoConn
    /\ LET early == NewConn(method, url, origin, "-")
           conn == NewConn(method, url, origin, ClientIp(xff))
           gate == isRateLimited(rateLimitMap, ClientIp(xff), now)
           alone == isRateLimited(unswept, ClientIp(xff), now)
       IN  IF method = "GET" /\ url = "/health"
           THEN /\ conns' = [conns EXCEPT ![c] = respond(early, 200, origin)]
                /\ UNCHANGED <<rateLimitMap, admitted, unswept>>
           ELSE IF method # "POST" \/ url # "/send-interest"
           THEN /\ conns' = [conns EXCEPT ![c] = respond(early, 404, origin)]
                /\ UNCHANGED <<rateLimitMap, admitted, unswept>>
           ELSE /\ rateLimitMap' = gate.map
                /\ unswept' = alone.map
                /\ IF gate.limited
                   THEN /\ conns' = [conns EXCEPT ![c] =
                                respond([conn EXCEPT !.limited = TRUE], 429, origin)]
                        /\ UNCHANGED admitted
                   ELSE /\ Len(admitted["10.0.0.1"]) + Len(admitted["10.0.0.2"]) < MaxAdmits
                        /\ conns' = [conns EXCEPT ![c] = [conn EXCEPT !.pc = "body"]]
                        /\ admitted' = [admitted EXCEPT ![conn.ip] = Append(@, now)]
    /\ UNCHANGED <<deployment, allowedOrigins, envOk, now, ticks, relayed, clientVars, checkVars>>

\* handleRequest up to its first await (readBody), or to its early response
handleRequest(c, method, url, origin, xff) ==
    /\ deployment = "standalone"
    /\ conns[c] = NoConn
    /\ LET early == NewConn(method, url, origin, "-")
           conn == NewConn(method, url, origin, ClientIp(xff))
           gate == isRateLimited(rateLimitMap, ClientIp(xff), now)
           alone == isRateLimited(unswept, ClientIp(xff), now)
       IN  IF method = "GET" /\ url = "/health"
           THEN /\ conns' = [conns EXCEPT ![c] = respond(early, 200, origin)]
                /\ UNCHANGED <<rateLimitMap, admitted, unswept>>
           ELSE IF method = "OPTIONS"
           THEN /\ conns' = [conns EXCEPT ![c] = respond(early, 204, origin)]
                /\ UNCHANGED <<rateLimitMap, admitted, unswept>>
           ELSE IF method # "POST" \/ url # "/send-interest"
           THEN /\ conns' = [conns EXCEPT ![c] = respond(early, 404, origin)]
                /\ UNCHANGED <<rateLimitMap, admitted, unswept>>
           ELSE /\ rateLimitMap' = gate.map
                /\ unswept' = alone.map
                /\ IF gate.limited
                   THEN /\ conns' = [conns EXCEPT ![c] =
                                respond([conn EXCEPT !.limited = TRUE], 429, origin)]
                        /\ UNCHANGED admitted
                   ELSE /\ Len(admitted["10.0.0.1"]) + Len(admitted["10.0.0.2"]) < MaxAdmits
                        /\ conns' = [conns EXCEPT ![c] = [conn EXCEPT !.pc = "body"]]
                        /\ admitted' = [admitted EXCEPT ![conn.ip] = Append(@, now)]
    /\ UNCHANGED <<deployment, allowedOrigins, envOk, now, ticks, relayed, clientVars, checkVars>>

RequestArrives ==
    \E c \in ConnIds, method \in Methods, url \in Urls, origin \in Origins, xff \in XffValues :
        handleRequest(c, method, url, origin, xff)

\* A variant of AfterBody that relays without testing validatePayload's result
AfterBodyUnvalidated(conn, b, streamError) ==
    LET got == [conn EXCEPT !.body = b, !.ip = "-"]
        payload == validatePayloadStandalone(Json(b.json))
    IN  IF streamError THEN respond([conn EXCEPT !.ip = "-"], 413, conn.origin)
        ELSE IF b.size > MAX_BODY THEN respond(got, 413, conn.origin)
        ELSE IF b.json = "malformed"
             THEN respond([got EXCEPT !.parsed = TRUE], 400, conn.origin)
        ELSE [got EXCEPT !.parsed = TRUE, !.payload = payload, !.pc = "mail", !.mails = @ + 1]

\* A variant of AfterBody that parses what has arrived before it looks at the size
AfterBodyParseFirst(conn, b, streamError) ==
    LET got == [conn EXCEPT !.body = b, !.ip = "-"]
        payload == validatePayloadStandalone(Json(b.json))
    IN  IF streamError THEN respond([conn EXCEPT !.ip = "-"], 413, conn.origin)
        ELSE IF b.json = "malformed"
             THEN respond([got EXCEPT !.parsed = TRUE], 400, conn.origin)
        ELSE IF b.size > MAX_BODY THEN respond(got, 413, conn.origin)
        ELSE IF payload = Null
             THEN respond([got EXCEPT !.parsed = TRUE], 400, conn.origin)
        ELSE [got EXCEPT !.parsed = TRUE, !.payload = payload, !.pc = "mail", !.mails = @ + 1]

\* readBody settles for connection c with the whole body b (it rejects once
\* the received size exceeds MAX_BODY, or on a stream error), then the parse
\* and validation gates run and a valid payload is handed to sendMail.
\* clientIp is not read after the rate-limit gate: the record drops it here.
AfterBody(conn, b, streamError) ==
    LET got == [conn EXCEPT !.body = b, !.ip = "-"]
        payload == validatePayloadStandalone(Json(b.json))
    IN  IF streamError THEN respond([conn EXCEPT !.ip = "-"], 413, conn.origin)
        ELSE IF b.size > MAX_BODY THEN respond(got, 413, conn.origin)
        ELSE IF b.json = "malformed"
             THEN respond([got EXCEPT !.parsed = TRUE], 400, conn.origin)
        ELSE IF payload = Null
             THEN respond([got EXCEPT !.parsed = TRUE], 400, conn.origin)
        ELSE [got EXCEPT !.parsed = TRUE, !.payload = payload, !.pc = "mail", !.mails = @ + 1]

BodyRead ==
    /\ deployment = "standalone"
    /\ \E c \in ConnIds, b \in Bodies, streamError \in BOOLEAN :
        /\ conns[c] # NoConn
        /\ conns[c].pc = "body"
        /\ conns' = [conns EXCEPT ![c] = AfterBody(conns[c], b, streamError)]
    /\ UNCHANGED <<deployment, allowedOrigins, envOk, now, ticks, rateLimitMap, admitted, unswept, relayed, clientVars, checkVars>>

\* The count of delivered emails after a sendMail call settles
Counted(n, sent) == IF sent /\ n < MaxRelayed THEN n + 1 ELSE n

\* A variant of AfterMail whose catch calls sendMail again
AfterMailRetried(conn, sent) ==
    IF sent THEN respond([conn EXCEPT !.transport = "ok"], 200, conn.origin)
    ELSE [conn EXCEPT !.mails = @ + 1]

\* transporter.sendMail settles: 200 {success: true}, or the catch's 500
AfterMail(conn, sent) ==
    IF sent THEN respond([conn EXCEPT !.transport = "ok"], 200, conn.origin)
    ELSE respond([conn EXCEPT !.transport = "failed"], 500, conn.origin)

MailSettles ==
    /\ deployment = "standalone"
    /\ \E c \in ConnIds, sent \in BOOLEAN :
        /\ conns[c] # NoConn
        /\ conns[c].pc = "mail"
        /\ conns' = [conns EXCEPT ![c] = AfterMail(conns[c], sent)]
        /\ relayed' = Counted(relayed, sent)
    /\ UNCHANGED <<deployment, allowedOrigins, envOk, now, ticks, rateLimitMap, admitted, unswept, clientVars, checkVars>>

\* The response has been written and the connection goes away
ConnCloses ==
    /\ \E c \in ConnIds :
        /\ conns[c] # NoConn
        /\ conns[c].pc = "responded"
        /\ conns' = [conns EXCEPT ![c] = NoConn]
    /\ UNCHANGED <<deployment, allowedOrigins, envOk, now, ticks, rateLimitMap, admitted, unswept, relayed, clientVars, checkVars>>

-----------------------------------------------------------------------------
(* Server: Vercel function *)

\* isOriginAllowed(req)
isOriginAllowed(origin) ==
    IF origin = NoOrigin THEN TRUE
    ELSE allowedOrigins = {} \/ origin \in allowedOrigins

\* setCorsHeaders(req, res): the Access-Control-Allow-Origin value it sets
setCorsHeaders(origin) ==
    IF origin # NoOrigin /\ origin \in allowedOrigins THEN origin ELSE NoOrigin

\* res.status(code) on a response whose CORS headers setCorsHeaders has set
Reply(conn, code) == [conn EXCEPT !.pc = "responded", !.code = code]

\* handler(req, res) up to its await of sendMail, or to its early return.
\* The platform has parsed the body: req.body is the JSON value.
VercelGates(conn, data) ==
    LET got == [conn EXCEPT !.acao = setCorsHeaders(conn.origin)]
        payload == validatePayload(Json(data))
    IN  IF ~isOriginAllowed(conn.origin) THEN Reply(got, 403)
        ELSE IF conn.method = "OPTIONS" THEN Reply(got, 204)
        ELSE IF conn.method # "POST" THEN Reply(got, 405)
        ELSE IF ~envOk THEN Reply(got, 500)
        ELSE IF payload = Null
             THEN Reply([got EXCEPT !.body = [size |-> 0, json |-> data], !.parsed = TRUE], 400)
        ELSE [got EXCEPT !.body = [size |-> 0, json |-> data], !.parsed = TRUE,
                         !.payload = payload, !.pc = "mail", !.mails = @ + 1]

handler ==
    /\ deployment = "vercel"
    /\ \E c \in ConnIds, method \in Methods, origin \in Origins, data \in RequestKeys \cup {"none"} :
        /\ conns[c] = NoConn
        /\ conns' = [conns EXCEPT ![c] =
                VercelGates(NewConn(method, "/api/send-interest", origin, "-"), data)]
    /\ UNCHANGED <<deployment, allowedOrigins, envOk, now, ticks, rateLimitMap, admitted, unswept, relayed, clientVars, checkVars>>

\* transporter.sendMail settles: 200 {success: true}, or the catch's 500
VercelAfterMail(conn, sent) ==
    IF sent THEN Reply([conn EXCEPT !.transport = "ok"], 200)
    ELSE Reply([conn EXCEPT !.transport = "failed"], 500)

VercelMailSettles ==
    /\ deployment = "vercel"
    /\ \E c \in ConnIds, sent \in BOOLEAN :
        /\ conns[c] # NoConn
        /\ conns[c].pc = "mail"
        /\ conns' = [conns EXCEPT ![c] = VercelAfterMail(conns[c], sent)]
        /\ relayed' = Counted(relayed, sent)
    /\ UNCHANGED <<deployment, allowedOrigins, envOk, now, ticks, rateLimitMap, admitted, unswept, clientVars, checkVars>>

-----------------------------------------------------------------------------
(* Server: specification *)

\* The standalone process exits at startup when a required variable is
\* missing, so it only ever serves with envOk; the function reads them per call.
\* The standalone server is taken with its allow-list configured (with an empty
\* list every origin is an unlisted one); the function with and without.
InitServer ==
    /\ deployment \in {"standalone", "vercel"}
    /\ allowedOrigins \in (IF deployment = "standalone" THEN {{SiteOrigin}}
                           ELSE {{}, {SiteOrigin}})
    /\ envOk \in (IF deployment = "standalone" THEN {TRUE} ELSE BOOLEAN)
    /\ now = 0
    /\ ticks = 0
    /\ rateLimitMap = <<>>
    /\ admitted = [ip \in IPs |-> <<>>]
    /\ unswept = <<>>
    /\ relayed = 0
    /\ conns = [c \in ConnIds |-> NoConn]
    /\ formData = EmptyForm
    /\ honeypot = Empty
    /\ status = "idle"
    /\ errorMessage = MsgNone
    /\ errorTimer = FALSE
    /\ timerArmedAt = 0
    /\ apiUrl = NoUrl
    /\ onLine = TRUE
    /\ runs = <<>>
    /\ NoCheck

NextServer ==
    \/ RequestArrives
    \/ BodyRead
    \/ MailSettles
    \/ ConnCloses
    \/ Sweep
    \/ Tick
    \/ handler
    \/ VercelMailSettles

SpecServer == InitServer /\ [][NextServer]_vars

-----------------------------------------------------------------------------
(* The form and the standalone server together *)

\* The POSTs of handleSubmit are the requests the server gets.  A connection
\* stays in the model until the fetch it answers has settled.

\* fetch(apiUrl, {method: 'POST', ...}) reaches the server from the site's
\* origin (the preflight passed: the origin is listed)
PostArrives ==
    /\ \E r \in RunIds : runs[r].pc = "fetch"
    /\ \E c \in ConnIds : handleRequest(c, "POST", "/send-interest", SiteOrigin, NoXff)

\* readBody settles with the text the form sent
PostBodyRead ==
    /\ \E r \in RunIds : Stringified(runs[r].body) = Json("form")
    /\ \E c \in ConnIds, streamError \in BOOLEAN :
        /\ conns[c] # NoConn
        /\ conns[c].pc = "body"
        /\ conns' = [conns EXCEPT ![c] =
                AfterBody(conns[c], [size |-> 200, json |-> "form"], streamError)]
    /\ UNCHANGED <<deployment, allowedOrigins, envOk, now, ticks, rateLimitMap, admitted, unswept, relayed, clientVars, checkVars>>

\* How the awaited fetch can settle: the connection can fail at any moment
\* (request or response lost: TypeError), the 10 s timer can abort it, and a
\* response that was written and that CORS lets the page read resolves it
FetchOutcomes ==
    {"typeerror", "abort"} \cup
    {IF conns[c].code = 200 THEN "ok" ELSE "http" :
        c \in {k \in ConnIds : /\ conns[k] # NoConn
                                /\ conns[k].pc = "responded"
                                /\ conns[k].acao = conns[k].origin}}

PostAnswered == \E r \in RunIds : \E o \in FetchOutcomes : PostSettles(r, o)

\* The connections of the previous attempt are gone when the next POST is sent
Quiet == \A c \in ConnIds : conns[c] = NoConn

NextAttempt == Quiet /\ RetryDelayElapsed

NextSubmit == Quiet /\ Submit

PostConnCloses ==
    /\ \A r \in RunIds : runs[r].pc # "fetch"
    /\ ConnCloses

InitPipeline ==
    /\ formData = EmptyForm
    /\ honeypot = Empty
    /\ status = "idle"
    /\ errorMessage = MsgNone
    /\ errorTimer = FALSE
    /\ timerArmedAt = 0
    /\ apiUrl = Url
    /\ onLine = TRUE
    /\ runs = <<>>
    /\ deployment = "standalone"
    /\ allowedOrigins = {SiteOrigin}
    /\ envOk = TRUE
    /\ now = 0
    /\ ticks = 0
    /\ rateLimitMap = <<>>
    /\ admitted = [ip \in IPs |-> <<>>]
    /\ unswept = <<>>
    /\ relayed = 0
    /\ conns = [c \in ConnIds |-> NoConn]
    /\ NoCheck

NextPipeline ==
    \/ Type
    \/ Dismiss
    \/ SendAnother
    \/ ErrorTimerFires
    \/ NextSubmit
    \/ PostArrives
    \/ PostBodyRead
    \/ MailSettles
    \/ PostAnswered
    \/ NextAttempt
    \/ Probe1Resolves
    \/ Probe2Resolves
    \/ PostConnCloses

SpecPipeline == InitPipeline /\ [][NextPipeline]_vars

-----------------------------------------------------------------------------
(* Validation on its own: validatePayload and EMAIL_PATTERN as functions *)

\* Longest address of the exhaustive part of Addresses
MaxAddrLen == 9

\* The addresses of the tests of EMAIL_PATTERN, and the one their note mentions
AddrUser == <<"u", "s", "e", "r", "@", "e", "x", "a", "m", "p", "l", "e", ".", "c", "o", "m">>
AddrUserName == <<"u", "s", "e", "r", ".", "n", "a", "m", "e", "@", "e", "x", "a", "m", "p", "l", "e", ".", "c", "o", ".", "u", "k">>
AddrUserDotName == <<"u", "s", "e", "r", ".", "n", "a", "m", "e", "@", "e", "x", "a", "m", "p", "l", "e", ".", "c", "o", "m">>
AddrPlusTag == <<"u", "s", "e", "r", "+", "t", "a", "g", "@", "e", "x", "a", "m", "p", "l", "e", ".", "c", "o", "m">>
AddrSubdomain == <<"u", "s", "e", "r", "@", "s", "u", "b", ".", "e", "x", "a", "m", "p", "l", "e", ".", "c", "o", "m">>
AddrOneChar == <<"u", "@", "e", "x", "a", "m", "p", "l", "e", ".", "c", "o", "m">>
AddrDigits == <<"u", "s", "e", "r", "1", "2", "3", "@", "e", "x", "a", "m", "p", "l", "e", ".", "c", "o", "m">>
AddrShortTld == <<"a", "@", "b", ".", "c">>
AddrNoLocal == <<"@", "e", "x", "a", "m", "p", "l", "e", ".", "c", "o", "m">>
AddrNoDomain == <<"u", "s", "e", "r", "@">>
AddrDomainDot == <<"u", "s", "e", "r", "@", ".", "c", "o", "m">>
AddrNoTldDot == <<"u", "s", "e", "r", "@", "c", "o", "m">>
AddrSpace == <<"u", "s", "e", "r", " ", "@", "e", "x", "a", "m", "p", "l", "e", ".", "c", "o", "m">>
AddrLeadingDot == <<".", "u", "s", "e", "r", "@", "e", "x", "a", "m", "p", "l", "e", ".", "c", "o", "m">>
AddrTrailingDot == <<"u", "s", "e", "r", ".", "@", "e", "x", "a", "m", "p", "l", "e", ".", "c", "o", "m">>
AddrDotDot == <<"a", ".", ".", "b", "@", "e", "x", "a", "m", "p", "l", "e", ".", "c", "o", "m">>

NamedAddresses ==
    {AddrUser, AddrUserName, AddrUserDotName, AddrPlusTag, AddrSubdomain,
     AddrOneChar, AddrDigits, AddrShortTld, AddrNoLocal, AddrNoDomain,
     AddrDomainDot, AddrNoTldDot, AddrSpace, AddrLeadingDot, AddrTrailingDot,
     AddrDotDot, <<>>}

\* Every string of up to MaxAddrLen characters over a letter, the dot and the
\* at sign, and the named addresses
AddrChars == {"a", ".", "@"}

Addresses ==
    UNION {[1..n -> AddrChars] : n \in 0..MaxAddrLen} \cup NamedAddresses

\* Field values of the objects handed to validatePayload: absent, of another
\* type, and strings at and around each limit
NameInputs ==
    {JUndefined, JNumber, JString(<<>>), JString(<<" ", " ">>), GoodName,
     JString(<<" ", " ", "J", "o", " ", " ">>),
     JString(Rep("n", NAME_MAX)), JString(Rep("n", NAME_MAX + 1)),
     JString(<<" ">> \o Rep("n", NAME_MAX))}

EmailInputs ==
    {JUndefined, JNumber, JString(<<>>), GoodEmail,
     JString(AddrUserName), JString(AddrShortTld), JString(AddrDotDot), JString(AddrNoTldDot),
     JString(Rep("a", EMAIL_MAX - 7) \o <<"@", "e", "x", ".", "c", "o", " ">>),
     JString(Rep("a", EMAIL_MAX - 6) \o <<"@", "e", "x", ".", "c", "o", " ">>)}

MessageInputs ==
    {JUndefined, JNumber, JString(<<>>), GoodMessage, JString(<<" ", " ", "h", "i", " ", " ">>),
     JString(Rep("m", MESSAGE_MAX)), JString(Rep("m", MESSAGE_MAX + 1))}

Inputs ==
    {JObject(n, e, m) : n \in NameInputs, e \in EmailInputs, m \in MessageInputs}
    \cup {JNull, JArray, JText, NoBody}

\* validatePayload's result read back as the object it is
AsObject(payload) ==
    JObject(JString(payload.name), JString(payload.email), JString(payload.message))

\* validatePayload(vpInput)
Validate ==
    /\ vpResult = Pending
    /\ vpResult' = validatePayload(vpInput)
    /\ UNCHANGED <<vpInput, vpAgain, address, matches, clientVars, serverVars>>

\* validatePayload(validatePayload(vpInput)), when the first call gave a payload
Revalidate ==
    /\ vpResult \notin {NoCall, Pending, Null}
    /\ vpAgain = Pending
    /\ vpAgain' = validatePayload(AsObject(vpResult))
    /\ UNCHANGED <<vpInput, vpResult, address, matches, clientVars, serverVars>>

\* EMAIL_PATTERN.test(address)
TestAddress ==
    /\ matches = "pending"
    /\ matches' = IF EMAIL_PATTERN(address) THEN "match" ELSE "no-match"
    /\ UNCHANGED <<vpInput, vpResult, vpAgain, address, clientVars, serverVars>>

InitValidate ==
    /\ \/ /\ vpInput \in Inputs
          /\ vpResult = Pending
          /\ vpAgain = Pending
          /\ address = <<>>
          /\ matches = "none"
       \/ /\ vpInput = NoCall
          /\ vpResult = NoCall
          /\ vpAgain = NoCall
          /\ address \in Addresses
          /\ matches = "pending"
    /\ formData = EmptyForm
    /\ honeypot = Empty
    /\ status = "idle"
    /\ errorMessage = MsgNone
    /\ errorTimer = FALSE
    /\ timerArmedAt = 0
    /\ apiUrl = NoUrl
    /\ onLine = TRUE
    /\ runs = <<>>
    /\ deployment = "none"
    /\ allowedOrigins = {}
    /\ envOk = TRUE
    /\ now = 0
    /\ ticks = 0
    /\ rateLimitMap = <<>>
    /\ admitted = [ip \in IPs |-> <<>>]
    /\ unswept = <<>>
    /\ relayed = 0
    /\ conns = [c \in ConnIds |-> NoConn]

NextValidate ==
    \/ Validate
    \/ Revalidate
    \/ TestAddress

SpecValidate == InitValidate /\ [][NextValidate]_vars

-----------------------------------------------------------------------------
(* Properties of the client submission controller (SpecClient) *)

Last(seq) == seq[Len(seq)]

\* Run r is the handleSubmit invocation started by this step
Started(r) == r = Len(runs') /\ Len(runs') = Len(runs) + 1

\* Run r was awaiting its POST and this step delivered outcome o to it
PostEnded(r, o) ==
    /\ r \in RunIds
    /\ runs[r].pc = "fetch"
    /\ runs'[r].results = Append(runs[r].results, o)

\* C1: status becomes 'success' only in a step in which the POST a run was
\* awaiting came back 2xx, or in which a run started with the honeypot filled;
\* no transport failure, timeout, non-2xx response or diagnosis result sets it.
C1_SuccessNeeds2xxOrHoneypot ==
    [][(status' = "success" /\ status # "success") =>
            \E r \in 1..Len(runs') :
                \/ Started(r) /\ runs'[r].hp /\ honeypot # Empty
                \/ PostEnded(r, "ok")]_vars

C1_Witness ==
    /\ status = "success"
    /\ Len(runs) = 2
    /\ runs[1].hp
    /\ runs[2].results = <<"typeerror", "ok">>

\* C3: a submit with a non-empty honeypot issues no POST and no probe, is
\* finished at once and sets status 'success', whatever apiUrl and onLine are.
C3_HoneypotNoNetwork ==
    [][\A r \in 1..Len(runs') :
            runs'[r].hp =>
                /\ runs'[r].posts = 0
                /\ runs'[r].probes = 0
                /\ runs'[r].pc = "done"
                /\ Started(r) => status' = "success"]_vars

C3_Witness ==
    \E r \in RunIds :
        /\ runs[r].hp
        /\ ~runs[r].online
        /\ apiUrl = NoUrl
        /\ status = "success"

\* C4: a submit with an empty honeypot while no endpoint URL is configured sets
\* status 'error' with the not-available message in that same step (so never
\* 'submitting'), and the run issues no POST and no probe.
C4_NoEndpointError ==
    [][\A r \in 1..Len(runs') :
            (~runs'[r].hp /\ apiUrl = NoUrl) =>
                /\ runs'[r].posts = 0
                /\ runs'[r].probes = 0
                /\ runs'[r].pc = "done"
                /\ Started(r) => status' = "error" /\ errorMessage' = MsgNotAvailable]_vars

C4_Witness ==
    \E r \in RunIds :
        /\ ~runs[r].hp
        /\ apiUrl = NoUrl
        /\ status = "error"
        /\ errorMessage = MsgNotAvailable

\* C5: a submit with an empty honeypot and a configured endpoint while
\* navigator.onLine is false sets status 'error' with the offline message in
\* that same step, and the run issues no POST and no probe.
C5_OfflineError ==
    [][\A r \in 1..Len(runs') :
            (~runs'[r].hp /\ apiUrl # NoUrl /\ ~runs'[r].online) =>
                /\ runs'[r].posts = 0
                /\ runs'[r].probes = 0
                /\ runs'[r].pc = "done"
                /\ Started(r) => status' = "error" /\ errorMessage' = MsgOffline]_vars

C5_Witness ==
    \E r \in RunIds :
        /\ ~runs[r].hp
        /\ apiUrl # NoUrl
        /\ ~runs[r].online
        /\ status = "error"
        /\ errorMessage = MsgOffline

\* C6: a non-2xx response to a POST attempt (first or second) ends the run:
\* status 'error' in that step, no further POST (as many POSTs as results),
\* no probe; a first response that is non-2xx leaves exactly one request sent.
C6_HttpErrorNotRetried ==
    [][\A r \in 1..Len(runs') :
            (\E i \in 1..Len(runs'[r].results) : runs'[r].results[i] = "http") =>
                /\ Last(runs'[r].results) = "http"
                /\ runs'[r].pc = "done"
                /\ runs'[r].posts = Len(runs'[r].results)
                /\ runs'[r].probes = 0
                /\ (runs'[r].results[1] = "http" => runs'[r].posts = 1)
                /\ PostEnded(r, "http") => status' = "error" /\ errorMessage' = MsgHttpError]_vars

C6_Witness ==
    /\ Len(runs) = 2
    /\ runs[1].results = <<"http">>
    /\ runs[1].posts = 1
    /\ runs[2].results = <<"typeerror", "http">>
    /\ status = "error"

\* C7: a run issues at most 2 POSTs; a second one only after the first ended
\* in a transport failure that was no timeout abort; and when the second
\* fails at the transport level too, status becomes 'error' and no third POST
\* follows.
C7_AtMostTwoAttempts ==
    [][\A r \in 1..Len(runs') :
            /\ runs'[r].posts <= 2
            /\ runs'[r].posts = 2 => runs'[r].results # <<>> /\ runs'[r].results[1] = "typeerror"
            /\ runs'[r].results = <<"typeerror", "typeerror">> =>
                    /\ runs'[r].posts = 2
                    /\ runs'[r].pc \in {"probe1", "probe2", "done"}
                    /\ runs'[r].exit # "ok"
                    /\ PostEnded(r, "typeerror") => status' = "error"]_vars

C7_Witness ==
    \E r \in RunIds :
        /\ runs[r].results = <<"typeerror", "typeerror">>
        /\ runs[r].posts = 2
        /\ runs[r].pc = "done"
        /\ status = "error"

\* C8: when the first POST failed with a connection error and the retry comes
\* back 2xx, that step sets status 'success' and empties name, email and message.
C8_RetrySuccessClearsDraft ==
    [][\A r \in RunIds :
            (runs[r].results = <<"typeerror">> /\ PostEnded(r, "ok")) =>
                /\ status' = "success"
                /\ formData' = [name |-> <<>>, email |-> <<>>, message |-> <<>>]]_vars

C8_Witness ==
    \E r \in RunIds :
        /\ runs[r].results = <<"typeerror", "ok">>
        /\ runs[r].body.name # <<>>
        /\ status = "success"
        /\ formData = [name |-> <<>>, email |-> <<>>, message |-> <<>>]

\* C9: a POST attempt (first or second) cancelled by its timeout ends the run:
\* status 'error' with the timeout message in that step, no further POST, no probe.
C9_TimeoutNotRetried ==
    [][\A r \in 1..Len(runs') :
            (\E i \in 1..Len(runs'[r].results) : runs'[r].results[i] = "abort") =>
                /\ Last(runs'[r].results) = "abort"
                /\ runs'[r].pc = "done"
                /\ runs'[r].posts = Len(runs'[r].results)
                /\ runs'[r].probes = 0
                /\ PostEnded(r, "abort") => status' = "error" /\ errorMessage' = MsgTimeout]_vars

C9_Witness ==
    /\ Len(runs) = 2
    /\ runs[1].results = <<"abort">>
    /\ runs[2].results = <<"typeerror", "abort">>
    /\ status = "error"
    /\ errorMessage = MsgTimeout

\* Run r returns in this step: at once from Submit, or from its last await
Finished(r) ==
    /\ r \in 1..Len(runs')
    /\ runs'[r].pc = "done"
    /\ Started(r) \/ (r \in RunIds /\ runs[r].pc # "done")

\* The text the visitor is to read for each way a run ends in failure
FailureText(exit) ==
    CASE exit = "no-api" -> "This feature is not available yet."
      [] exit = "offline" -> "You appear to be offline."
      [] exit = "http" -> "Something went wrong while sending your message."
      [] exit = "timeout" -> "The request took too long."
      [] exit = "dropped" -> "Your connection dropped while sending."
      [] exit = "not-deployed" -> "This feature is temporarily unavailable."
      [] exit = "cors" -> "A security setting is blocking the response."
      [] exit = "network" -> "Could not reach the server."

C18_TimerOfLatestSubmission ==
    errorTimer => timerArmedAt = Len(runs)

\* C19: while status is 'success' no auto-dismiss timer is pending, and a step
\* that changes status changes it to 'idle' and changes nothing that a POST,
\* a retry, a diagnosis or the timer callback would: it is the click on
\* 'Send another message'.
C19_SuccessLeftOnlyBySendAnother ==
    [][status = "success" =>
            /\ ~errorTimer
            /\ status' # "success" =>
                    /\ status' = "idle"
                    /\ UNCHANGED <<formData, honeypot, errorMessage, apiUrl, onLine, runs>>]_vars

\* Success of a second run, with the diagnosis of the first run's failure
\* delivered around it
C19_Witness ==
    /\ status = "success"
    /\ Len(runs) = 2
    /\ runs[1].exit = "network"
    /\ runs[2].exit = "ok"
    /\ errorMessage = MsgNetwork

\* C20: at most one handleSubmit run is between its start and its return
\* (awaiting a POST, the retry delay or a diagnosis probe) at any time.
C20_OneRunAtATime ==
    Cardinality({r \in RunIds : runs[r].pc # "done"}) <= 1

\* C21: a step in which an older handleSubmit run applies a result, after a
\* newer run has started and returned with its outcome, leaves status and the
\* error message as the newer run set them.
C21_LateResultNotApplied ==
    [][\A r \in RunIds :
            (/\ r < Len(runs)
             /\ runs[Len(runs)].pc = "done"
             /\ runs'[r] # runs[r]) =>
                UNCHANGED <<status, errorMessage>>]_vars

C23_DiagnosisCause ==
    [][/\ \A r \in RunIds :
            (runs[r].probes = 0 /\ runs'[r].probes > 0) =>
                /\ onLine
                /\ PostEnded(r, "typeerror")
                /\ runs'[r].results = <<"typeerror", "typeerror">>
       /\ \A r \in 1..Len(runs') :
            LET run == runs'[r] IN
            /\ run.probes \in 0..2
            /\ run.probes > 0 => run.posts = 2 /\ run.pc \in {"probe1", "probe2", "done"}
            /\ (run.probes > 0 /\ run.pc = "done") =>
                    /\ Len(run.probeResults) = run.probes
                    /\ run.exit \in {"cors", "network", "not-deployed"}
                    /\ run.exit = "cors" <=> run.probeResults[1] = "ok"
                    /\ run.exit = "network" <=> run.probeResults = <<"throw", "throw">>
            /\ run.exit \in {"cors", "network", "not-deployed"} => run.probes > 0]_vars

C23_Witness ==
    /\ \E r \in RunIds :
            /\ runs[r].exit = "not-deployed"
            /\ runs[r].probeResults = <<"throw", "opaque">>
    /\ \E r \in RunIds :
            /\ runs[r].exit = "cors"
            /\ runs[r].probeResults = <<"ok">>

-----------------------------------------------------------------------------
(* Properties of the server endpoints (SpecServer) *)

Open == {c \in ConnIds : conns[c] # NoConn}

\* The request of connection c satisfies the field rules of the deployed
\* validatePayload, stated on the JSON value itself
FieldsValid(data) ==
    /\ data.t = "object"
    /\ data.name.t = "string" /\ data.email.t = "string" /\ data.message.t = "string"
    /\ Len(Trim(data.name.v)) >= 1 /\ Len(data.name.v) <= 100
    /\ Len(data.email.v) <= 254
    /\ Len(data.message.v) <= 2000
    /\ IF deployment = "vercel" THEN EMAIL_PATTERN(Trim(data.email.v))
                                ELSE emailPattern(Trim(data.email.v))

\* C2: sendMail is called only for a request that passed every gate: a POST
\* (to /send-interest on the standalone server), not rate-limited, from an
\* allowed origin and with the configuration present (function), whose body is
\* within the size cap, parses and satisfies the field rules; a request
\* answered by a gate's rejection has had no sendMail call.
C2_RelayOnlyAfterAllGates ==
    \A c \in Open :
        /\ conns[c].mails > 0 =>
                /\ conns[c].mails = 1
                /\ conns[c].method = "POST"
                /\ conns[c].parsed
                /\ conns[c].body.size <= 10000
                /\ conns[c].body.json # "malformed"
                /\ FieldsValid(Json(conns[c].body.json))
                /\ conns[c].payload # Null
                /\ ~conns[c].limited
                /\ deployment = "standalone" => conns[c].url = "/send-interest"
                /\ deployment = "vercel" =>
                        /\ envOk
                        /\ conns[c].origin = NoOrigin \/ allowedOrigins = {}
                                \/ conns[c].origin \in allowedOrigins
        /\ conns[c].code \in {400, 403, 404, 405, 413, 429, 204} => conns[c].mails = 0
        /\ (conns[c].code = 500 /\ ~envOk) => conns[c].mails = 0

C2_Witness ==
    \E c \in Open :
        /\ deployment = "standalone"
        /\ conns[c].mails = 1
        /\ conns[c].code = 200
        /\ conns[c].body.json = "short-tld"

\* The requests from ip admitted at times inside the window that ends at t
AdmittedInWindow(ip, t) ==
    {i \in 1..Len(admitted[ip]) : t - admitted[ip][i] < 3600000}

\* Connection c is opened by this step for a POST to the submission path
GateTaken(c) ==
    /\ conns[c] = NoConn
    /\ conns'[c] # NoConn
    /\ conns'[c].method = "POST"
    /\ conns'[c].url = "/send-interest"

\* C10: on the standalone server a POST to /send-interest passes the
\* rate-limit gate exactly when fewer than 5 requests of its IP were admitted
\* in the trailing hour; otherwise it is answered 429.
C10_RateLimitGate ==
    [][\A c \in ConnIds :
            (deployment = "standalone" /\ GateTaken(c)) =>
                LET ip == conns'[c].ip
                    fewer == Cardinality(AdmittedInWindow(ip, now)) < 5
                IN  /\ fewer <=> ~conns'[c].limited
                    /\ fewer => conns'[c].pc = "body" /\ admitted'[ip] = Append(admitted[ip], now)
                    /\ ~fewer => conns'[c].code = 429 /\ admitted' = admitted]_vars

\* Five requests of one IP admitted at time 0, and a sixth admitted once the
\* hour has passed
C10_Witness ==
    \E ip \in IPs :
        /\ admitted[ip] = <<0, 0, 0, 0, 0, 3600000>>
        /\ \E c \in Open : conns[c].pc = "body" /\ conns[c].ip = ip

\* C11: in the function, a request whose Origin header is present and not in
\* the allow-list (whatever the list, the empty one included; whatever the
\* method) gets no Access-Control-Allow-Origin header and a 4xx status, and
\* is neither validated nor relayed.
C11_UnlistedOriginRejected ==
    \A c \in Open :
        (/\ deployment = "vercel"
         /\ conns[c].origin # NoOrigin
         /\ conns[c].origin \notin allowedOrigins) =>
            /\ conns[c].acao = NoOrigin
            /\ conns[c].code \in 400..499
            /\ ~conns[c].parsed
            /\ conns[c].mails = 0

\* C12: on the standalone server a body of more than 10,000 bytes is answered
\* 413 without JSON.parse having been called on it: never 400, never a
\* sendMail call, whatever the text is.
C12_OversizeBeforeParse ==
    \A c \in Open :
        (deployment = "standalone" /\ conns[c].body.size > 10000) =>
            /\ conns[c].code = 413
            /\ conns[c].pc = "responded"
            /\ ~conns[c].parsed
            /\ conns[c].payload = Null
            /\ conns[c].mails = 0

\* An oversized body whose text is no JSON, answered 413
C12_Witness ==
    \E c \in Open :
        /\ deployment = "standalone"
        /\ conns[c].body = [size |-> 10001, json |-> "malformed"]
        /\ conns[c].code = 413

\* C24: a request calls sendMail exactly once if it passed every gate and not
\* at all otherwise; while the call is pending nothing is answered; a call that
\* rejected is answered 500 and one that resolved 200, with no second call.
C24_OneSendPerRequest ==
    \A c \in Open :
        LET conn == conns[c] IN
        /\ conn.mails <= 1
        /\ conn.payload # Null <=> conn.mails = 1
        /\ conn.pc = "mail" => conn.mails = 1 /\ conn.transport = "none" /\ conn.code = 0
        /\ conn.transport = "failed" =>
                conn.pc = "responded" /\ conn.code = 500 /\ conn.mails = 1
        /\ conn.transport = "ok" =>
                conn.pc = "responded" /\ conn.code = 200 /\ conn.mails = 1
        /\ (conn.mails = 1 /\ conn.pc = "responded") => conn.transport \in {"ok", "failed"}

C24_Witness ==
    \E c \in Open :
        /\ deployment = "standalone"
        /\ conns[c].payload # Null
        /\ conns[c].transport = "failed"
        /\ conns[c].code = 500
        /\ conns[c].mails = 1

\* The gate's answer for a request of ip at time t, from a given table
Limited(map, ip, t) == isRateLimited(map, ip, t).limited

\* C25: with sweeps interleaved anywhere, each request gets the admit/429
\* decision it gets from a process that handles the same requests and never
\* sweeps; the two tables always hold the same timestamps inside the window,
\* which is all a later decision reads.
C25_SweepUnobservable ==
    [][/\ \A c \in ConnIds :
            (deployment = "standalone" /\ GateTaken(c)) =>
                conns'[c].limited = Limited(unswept, conns'[c].ip, now)
       /\ \A ip \in IPs :
            Recent(MapGet(rateLimitMap', ip), now') = Recent(MapGet(unswept', ip), now')]_vars

\* A 429 given after a sweep has discarded a record the unswept table still holds
C25_Witness ==
    /\ \E ip \in DOMAIN unswept : ip \notin DOMAIN rateLimitMap
    /\ \E c \in Open : conns[c].limited /\ conns[c].code = 429

\* Every timestamp of the record is inside the window that ends at t
InWindow(timestamps, t) ==
    \A i \in 1..Len(timestamps) : t - timestamps[i] < RATE_LIMIT_WINDOW_MS

\* C26: no record of the rate-limit table ever holds more than 5 timestamps;
\* when the gate has handled a request, the record of its IP holds only
\* timestamps inside the trailing window; a sweep, run in any state, leaves
\* no empty record and no timestamp older than the window.
C26_TableBounded ==
    [][/\ \A ip \in DOMAIN rateLimitMap' : Len(rateLimitMap'[ip]) <= RATE_LIMIT_MAX
       /\ \A c \in ConnIds :
            (deployment = "standalone" /\ GateTaken(c)) =>
                /\ conns'[c].ip \in DOMAIN rateLimitMap'
                /\ InWindow(rateLimitMap'[conns'[c].ip], now)
       /\ LET swept == SweepMap(rateLimitMap, now)
          IN  \A ip \in DOMAIN swept : swept[ip] # <<>> /\ InWindow(swept[ip], now)
       /\ (rateLimitMap' # rateLimitMap /\ conns' = conns) =>
            \A ip \in DOMAIN rateLimitMap' :
                rateLimitMap'[ip] # <<>> /\ InWindow(rateLimitMap'[ip], now)]_vars

\* One record pruned to the newest timestamp by an access, the record of the
\* other IP removed by a sweep
C26_Witness ==
    /\ \E ip \in DOMAIN rateLimitMap :
            /\ rateLimitMap[ip] = <<RATE_LIMIT_WINDOW_MS>>
            /\ admitted[ip] = <<0, 0, RATE_LIMIT_WINDOW_MS>>
    /\ \E ip \in IPs : ip \notin DOMAIN rateLimitMap /\ admitted[ip] # <<>>

\* C27: the standalone server answers an OPTIONS request, whatever its path,
\* in the step that accepts it: 204, Access-Control-Allow-Origin set as for
\* any response (the Origin if it is listed), no rate-limit decision, no body
\* read or parsed, no payload, no sendMail call, rate-limit table untouched.
C27_PreflightAnswered ==
    [][\A c \in ConnIds :
            (/\ deployment = "standalone"
             /\ conns[c] = NoConn
             /\ conns'[c] # NoConn
             /\ conns'[c].method = "OPTIONS") =>
                LET conn == conns'[c] IN
                /\ conn.pc = "responded"
                /\ conn.code = 204
                /\ conn.acao = (IF conn.origin \in allowedOrigins THEN conn.origin ELSE "")
                /\ ~conn.limited
                /\ conn.body = Unread /\ ~conn.parsed /\ conn.payload = Null
                /\ conn.mails = 0
                /\ rateLimitMap' = rateLimitMap
                /\ admitted' = admitted]_vars

\* A preflight to the submission path answered while the record of an IP is full
C27_Witness ==
    /\ \E c \in Open :
            /\ conns[c].method = "OPTIONS"
            /\ conns[c].url = "/send-interest"
            /\ conns[c].origin = SiteOrigin
            /\ conns[c].code = 204
    /\ \E ip \in DOMAIN rateLimitMap : Len(rateLimitMap[ip]) = RATE_LIMIT_MAX

\* C28: a request answered 429 leaves in its IP's record exactly the
\* timestamps that were inside the window, and leaves the other records
\* alone; a request of an IP with 5 recorded timestamps is answered 429 while
\* the oldest of them is less than one hour old and is admitted from the
\* millisecond at which it is one hour old.
C28_RejectionLeavesWindow ==
    [][\A c \in ConnIds :
            (deployment = "standalone" /\ GateTaken(c)) =>
                LET ip == conns'[c].ip
                    old == MapGet(rateLimitMap, ip)
                IN  /\ conns'[c].limited =>
                            /\ rateLimitMap'[ip] = Recent(old, now)
                            /\ \A i \in 1..Len(old) :
                                    now - old[i] < 3600000 =>
                                        \E k \in 1..Len(rateLimitMap'[ip]) :
                                            rateLimitMap'[ip][k] = old[i]
                            /\ \A other \in DOMAIN rateLimitMap \ {ip} :
                                    rateLimitMap'[other] = rateLimitMap[other]
                    /\ Len(old) = 5 =>
                            (conns'[c].limited <=> now - old[1] < 3600000)]_vars

\* A 429 one millisecond before the five timestamps of the IP expire
C28_Witness ==
    \E c \in Open :
        /\ conns[c].limited
        /\ conns[c].code = 429
        /\ now = 3600000 - 1
        /\ rateLimitMap[conns[c].ip] = <<0, 0, 0, 0, 0>>

\* C29: on the standalone server the step that lets a POST to /send-interest
\* pass the rate-limit gate records its timestamp while nothing of the body
\* has been read, parsed or validated; no later step of the request (413,
\* 400, failed or successful send) gives the unit back; and a request whose IP
\* has 5 admissions in the trailing hour is answered 429 whatever became of
\* them.
C29_QuotaSpentAtTheGate ==
    [][\A c \in ConnIds :
            /\ (deployment = "standalone" /\ GateTaken(c)) =>
                    LET ip == conns'[c].ip
                        conn == conns'[c]
                    IN  /\ ~conn.limited =>
                                /\ conn.pc = "body"
                                /\ conn.body = Unread /\ ~conn.parsed /\ conn.payload = Null
                                /\ conn.mails = 0
                                /\ rateLimitMap'[ip] =
                                        Append(Recent(MapGet(rateLimitMap, ip), now), now)
                        /\ Cardinality(AdmittedInWindow(ip, now)) >= 5 => conn.code = 429
            /\ (/\ deployment = "standalone"
                /\ conns[c] # NoConn
                /\ conns[c].pc \in {"body", "mail"}
                /\ conns'[c] # conns[c]) =>
                    /\ conns'[c].pc \in {"mail", "responded"}
                    /\ rateLimitMap' = rateLimitMap
                    /\ admitted' = admitted]_vars

\* Five requests of one IP admitted, none of them relayed (each ended 413, 400
\* or 500), and the sixth answered 429
C29_Witness ==
    /\ relayed = 0
    /\ \E c \in Open :
            /\ conns[c].limited
            /\ conns[c].code = 429
            /\ admitted[conns[c].ip] = <<0, 0, 0, 0, 0>>
            /\ \A ip \in IPs \ {conns[c].ip} : admitted[ip] = <<>>

-----------------------------------------------------------------------------
(* Properties of the form and the server together (SpecPipeline) *)

\* C30: the server delivers no more emails than the visitor made submissions:
\* a sendMail call resolves only when fewer emails were delivered before than
\* handleSubmit runs have started, however the two POST attempts of a run
\* interleave with the server and whatever becomes of the responses.
C30_OneEmailPerSubmit ==
    [][\A c \in ConnIds :
            (/\ conns[c] # NoConn
             /\ conns[c].pc = "mail"
             /\ conns'[c].transport = "ok") =>
                relayed < Len(runs)]_vars

-----------------------------------------------------------------------------
(* Properties of the validation functions (SpecValidate) *)

MaxOf(S) == CHOOSE x \in S : \A y \in S : y <= x
MinOf(S) == CHOOSE x \in S : \A y \in S : x <= y

\* The part of s before its first at sign, and the part after it
LocalOf(s) == SubSeq(s, 1, MinOf(Positions(s, "@")) - 1)
DomainOf(s) == SubSeq(s, MinOf(Positions(s, "@")) + 1, Len(s))

\* C13: when validatePayload gave a payload for its input, validatePayload of
\* that payload gives a payload again, equal to the first, and never null.
C13_Idempotent ==
    vpAgain \notin {NoCall, Pending} => vpAgain # Null /\ vpAgain = vpResult

\* An input whose three fields all had whitespace to trim
C13_Witness ==
    /\ vpAgain \notin {NoCall, Pending, Null}
    /\ vpAgain = vpResult
    /\ vpInput.name.v # vpResult.name
    /\ vpInput.email.v # vpResult.email
    /\ vpInput.message.v # vpResult.message

\* The three fields are strings within the limits, the lengths taken of the
\* values as received, and the trimmed email matches
WithinRules(d) ==
    /\ d.t = "object"
    /\ d.name.t = "string" /\ d.email.t = "string" /\ d.message.t = "string"
    /\ Len(Trim(d.name.v)) >= 1
    /\ Len(d.name.v) <= 100
    /\ Len(d.email.v) <= 254
    /\ EMAIL_PATTERN(Trim(d.email.v))
    /\ Len(d.message.v) <= 2000

\* The same with the name's limit taken of the trimmed name
WithinRulesTrimmedName(d) ==
    /\ d.t = "object"
    /\ d.name.t = "string" /\ d.email.t = "string" /\ d.message.t = "string"
    /\ Len(Trim(d.name.v)) >= 1
    /\ Len(Trim(d.name.v)) <= 100
    /\ Len(d.email.v) <= 254
    /\ EMAIL_PATTERN(Trim(d.email.v))
    /\ Len(d.message.v) <= 2000

Trimmed(d) ==
    [name |-> Trim(d.name.v), email |-> Trim(d.email.v), message |-> Trim(d.message.v)]

\* C14 as stated: validatePayload gives a payload exactly when name is a string
\* of trimmed length 1 to 100, email a string of at most 254 characters that
\* matches the pattern and message a string of at most 2000 characters, and
\* null for every other input; the payload is the three fields trimmed.
C14_AcceptsTrimmedNameLimit ==
    vpResult \notin {NoCall, Pending} =>
        IF WithinRulesTrimmedName(vpInput) THEN vpResult = Trimmed(vpInput)
        ELSE vpResult = Null

\* C14, amended: the same with the limit of 100 applied to the name as
\* received (before trimming), like the other two limits.
C14_AcceptsExactly ==
    vpResult \notin {NoCall, Pending} =>
        IF WithinRules(vpInput) THEN vpResult = Trimmed(vpInput)
        ELSE vpResult = Null

\* An object accepted with every field at its limit
C14_Witness ==
    /\ vpResult \notin {NoCall, Pending, Null}
    /\ Len(vpInput.name.v) = 100
    /\ Len(vpInput.email.v) = 254
    /\ Len(vpInput.message.v) = 2000
    /\ vpResult.email # vpInput.email.v

\* C15: an address the pattern accepts has a non-empty local part that
\* neither starts nor ends with a dot, and a non-empty domain that does not
\* start with a dot, contains a dot and ends in a label of 2 characters or
\* more; user@example.com and user.name@example.co.uk are accepted, and
\* a@b.c, @example.com, user@ and .user@example.com are rejected.
C15_PatternShape ==
    matches \in {"match", "no-match"} =>
        /\ matches = "match" =>
                /\ Positions(address, "@") # {}
                /\ LET l == LocalOf(address)
                       d == DomainOf(address)
                   IN  /\ l # <<>>
                       /\ d # <<>>
                       /\ l[1] # "."
                       /\ l[Len(l)] # "."
                       /\ d[1] # "."
                       /\ Positions(d, ".") # {}
                       /\ Len(d) - MaxOf(Positions(d, ".")) >= 2
        /\ address \in {AddrUser, AddrUserName} => matches = "match"
        /\ address \in {AddrShortTld, AddrNoLocal, AddrNoDomain, AddrLeadingDot} =>
                matches = "no-match"

C15_Witness ==
    /\ address = AddrUserName
    /\ matches = "match"

\* C16: an address with two dots in a row, in the local part or in the
\* domain, is not accepted by the pattern.
C16_NoConsecutiveDots ==
    matches = "match" =>
        ~ \E i \in 1..(Len(address) - 1) : address[i] = "." /\ address[i + 1] = "."

====
